---- MODULE Spec2Model ----
(***************************************************************************)
(* Model of the rate limiting middleware of Kokoro-FastAPI:                *)
(*   api/src/core/redis_manager.py   RedisManager (shared Redis client)    *)
(*   api/src/middleware/rate_limiter.py  RateLimiter.check_rate_limit,     *)
(*                                       get_rate_limiter                  *)
(* Every `await` of the source is a suspension point: a coroutine is       *)
(* modelled as a process whose steps are the pieces of code between two    *)
(* awaits, the awaited Redis command being executed at the start of the    *)
(* step that resumes the coroutine.                                        *)
(***************************************************************************)
EXTENDS Integers, Sequences, FiniteSets, TLC

(***************************************************************************)
(* Bounds of the model.                                                    *)
(***************************************************************************)
\* settings.rate_limit_requests_per_minute / rate_limit_chars_per_day: the
\* configuration values the model runs with.
RequestsPerMinute == 2
CharsPerDay == 3
\* number of check_rate_limit coroutines / connection coroutines
NumTasks == 2
NumConns == 2
\* redis.Redis(...) objects constructed in one run
MaxHandles == 2
\* a check is started only while the counters are at most this far over
MaxOver == 1
\* number of short clock steps after a long one, number of long clock steps
MaxShortTicks == 2
MaxLongTicks == 3

(***************************************************************************)
(* Program constants.                                                      *)
(***************************************************************************)
\* self.redis.expire(minute_key, 60) and self.redis.expire(day_key, 25 * 3600)
MinuteTTL == 60
DayTTL == 25 * 3600
SecondsPerDay == 24 * 3600
\* the steps of the clock: half a minute window, half a day
ShortTick == MinuteTTL \div 2
LongTick == SecondsPerDay \div 2

None == 0
NoTTL == -1

Tasks == 1 .. NumTasks
Conns == 1 .. NumConns
Handles == 1 .. MaxHandles

\* request.client.host values; "" is a request without a client address
Hosts == {"a", "w", ""}
\* settings.rate_limit_whitelist after strip()
whitelist == {"w"}
\* text_length values
Units == {0, 2, CharsPerDay + 1}

VARIABLES
    enabled,        \* RateLimiter.enabled (settings.rate_limit_enabled)
    redis_client,   \* RedisManager._redis_client: None or a handle
    closed,         \* handles on which close() was called
    made,           \* number of redis.Redis objects constructed so far
    rate_limiter,   \* the global _rate_limiter: [set, redis]
    storeUp,        \* the Redis server answers
    now,            \* seconds since the start of the run
    kv,             \* the Redis keyspace: key -> [ex, val, exp]
    conn,           \* get_client / close coroutines
    task            \* check_rate_limit coroutines

vars == <<enabled, redis_client, closed, made, rate_limiter, storeUp, now, kv,
          conn, task>>

(***************************************************************************)
(* Keys and the key-value store (Redis commands used by the source).       *)
(***************************************************************************)
\* datetime.now().strftime("%Y%m%d"): the calendar date of the local clock
Today(t) == ToString(t \div SecondsPerDay)

\* (mutant) the minute counter is kept under the key of the day counter
MinuteKey_Mut(ip) == <<"rate_limit", "chars", ip, "0">>

\* f"rate_limit:req:{client_ip}:minute"
MinuteKey(ip) == <<"rate_limit", "req", ip, "minute">>
\* (mutant) the day counter is not kept per client
DayKey_Shared(ip, today) == <<"rate_limit", "chars", "unknown", today>>

\* f"rate_limit:chars:{client_ip}:{today}"
DayKey(ip, today) == <<"rate_limit", "chars", ip, today>>

\* request.client.host, "unknown" when it is empty
ClientIp(host) == IF host = "" THEN "unknown" ELSE host

Ips == {ClientIp(h) : h \in Hosts}
MaxNow == MaxLongTicks * LongTick + MaxShortTicks * ShortTick
Dates == {Today(t) : t \in {k * LongTick : k \in 0 .. MaxLongTicks}}
Keys == {MinuteKey(ip) : ip \in Ips} \cup
        {DayKey(ip, d) : ip \in Ips, d \in Dates}

Absent == [ex |-> FALSE, val |-> 0, exp |-> NoTTL]

\* a key whose time to live has run out is gone
Live(store, k, t) ==
    store[k].ex /\ (store[k].exp = NoTTL \/ store[k].exp > t)

\* INCRBY key amount: the value after the add; an absent key counts as 0
IncrByValue(store, k, amount, t) ==
    IF Live(store, k, t) THEN store[k].val + amount ELSE amount

\* (mutant) the add is lost: the value is returned and not stored
IncrByStore_Lost(store, k, amount, t) == store

\* INCRBY key amount: the keyspace after the add; the time to live is kept
IncrByStore(store, k, amount, t) ==
    [store EXCEPT ![k] =
        IF Live(store, k, t)
        THEN [@ EXCEPT !.val = @ + amount]
        ELSE [ex |-> TRUE, val |-> amount, exp |-> NoTTL]]

\* EXPIRE key seconds: sets the time to live of an existing key
ExpireStore(store, k, seconds, t) ==
    IF Live(store, k, t)
    THEN [store EXCEPT ![k].exp = t + seconds]
    ELSE store

\* the keyspace at time t: expired keys are removed
Sweep(store, t) ==
    [k \in Keys |-> IF Live(store, k, t) THEN store[k] ELSE Absent]

(***************************************************************************)
(* Decisions of check_rate_limit.                                          *)
(***************************************************************************)
Pending == [status_code |-> 0, error |-> "", message |-> "", type |-> ""]
\* return True
ReturnTrue == [status_code |-> 200, error |-> "", message |-> "", type |-> ""]
\* HTTPException(status_code=429, detail={...}) of the minute check
MinuteExceeded ==
    [status_code |-> 429, error |-> "rate_limit_exceeded",
     message |-> "too frequent, try again later", type |-> "rate_limit_error"]
\* HTTPException(status_code=429, detail={...}) of the day check
DayExceeded ==
    [status_code |-> 429, error |-> "rate_limit_exceeded",
     message |-> "daily quota used up", type |-> "rate_limit_error"]

IdleTask ==
    [pc |-> "idle", ip |-> "", text_length |-> 0, redis |-> None,
     minute_count |-> 0, day_count |-> 0, today |-> "",
     result |-> Pending, ops |-> <<>>, log |-> <<>>]

\* a connection coroutine: its caller, the client it pings or closes (h) and,
\* once it has returned, the client it returned (ret)
IdleConn == [pc |-> "idle", caller |-> "", h |-> None, ret |-> None]

\* the coroutine has returned `value` to `caller`
Returned(caller, h, value) ==
    [pc |-> "idle", caller |-> caller, h |-> h, ret |-> value]

NoLimiter == [set |-> FALSE, redis |-> None]

\* (mutant) the enabled flag is ignored
Disabled_Mut == FALSE

\* if not self.enabled
Disabled == ~enabled

\* (mutant) a missing client is not noticed
NoRedis_Mut(self) == FALSE

\* if self.redis is None
NoRedis(self) == self.redis = None

\* (mutant) a failed command rejects the request
FailOpen_Mut == MinuteExceeded

\* except Exception: ... return True
FailOpen == ReturnTrue

\* (mutant) the whitelist is ignored
is_whitelisted_Mut(ip) == FALSE

\* RateLimiter.is_whitelisted
is_whitelisted(ip) == ip \in whitelist

\* (mutant) >= instead of >
MinuteOver_Mut(minute_count) == minute_count >= RequestsPerMinute

\* minute_count > self.requests_per_minute
MinuteOver(minute_count) == minute_count > RequestsPerMinute

\* (mutant) threshold off by one
DayOver_Mut(day_count) == day_count > CharsPerDay + 1

\* day_count > self.chars_per_day
DayOver(day_count) == day_count > CharsPerDay

\* (mutant) the expiry of the minute key is never set
FirstHit_Mut(minute_count) == FALSE

\* (mutant) every request sets the expiry of the minute key again
FirstHit_Every(minute_count) == TRUE

\* minute_count == 1: this INCR created the key
FirstHit(minute_count) == minute_count = 1

\* day_count == text_length: this INCRBY is taken to have created the key
FirstAdd(day_count, text_length) == day_count = text_length

Init ==
    /\ enabled \in BOOLEAN
    /\ redis_client = None
    /\ closed = {}
    /\ made = 0
    /\ rate_limiter = NoLimiter
    /\ storeUp \in BOOLEAN
    /\ now = 0
    /\ kv = [k \in Keys |-> Absent]
    /\ conn = [c \in Conns |-> IdleConn]
    /\ task = [t \in Tasks |-> IdleTask]

(***************************************************************************)
(* RedisManager.get_client, RedisManager.close, get_rate_limiter.          *)
(***************************************************************************)
\* a command sent through handle h is answered / raises
\* (a closed client may reconnect or raise: both are possible)
CommandOk(h) == h # None /\ storeUp
CommandFails(h) == h = None \/ ~storeUp \/ h \in closed

\* what the caller of get_redis() does with the client it is handed:
\* get_rate_limiter builds the global RateLimiter around it
Deliver(caller, client) ==
    IF caller = "get_rate_limiter"
    THEN rate_limiter' = [set |-> TRUE, redis |-> client]
    ELSE UNCHANGED rate_limiter

\* (mutant) a client is built and pinged on every call
Cached_Mut == FALSE

\* if self._redis_client is None (negated): a client is cached
Cached == redis_client # None

\* (mutant) close leaves the closed client in place
AfterClose_Mut == redis_client

\* self._redis_client = None at the end of close
AfterClose == None

\* get_client up to its first await: a cached client is returned as it is,
\* otherwise a client is constructed, stored and pinged
GetClient(c, caller) ==
    /\ conn[c].pc = "idle"
    /\ IF Cached
       THEN /\ Deliver(caller, redis_client)
            /\ conn' = [conn EXCEPT ![c] = Returned(caller, None, redis_client)]
            /\ UNCHANGED <<redis_client, made>>
       ELSE /\ made < MaxHandles
            /\ made' = made + 1
            /\ redis_client' = made + 1
            /\ conn' = [conn EXCEPT ![c] =
                          [pc |-> "ping", caller |-> caller, h |-> made + 1,
                           ret |-> None]]
            /\ UNCHANGED rate_limiter
    /\ UNCHANGED <<enabled, closed, storeUp, now, kv, task>>

\* the ping is answered: get_client returns self._redis_client
PingOk(c) ==
    /\ conn[c].pc = "ping"
    /\ CommandOk(conn[c].h)
    /\ Deliver(conn[c].caller, redis_client)
    /\ conn' = [conn EXCEPT ![c] =
                  Returned(conn[c].caller, conn[c].h, redis_client)]
    /\ UNCHANGED <<enabled, redis_client, closed, made, storeUp, now, kv, task>>

\* the ping raises: self._redis_client = None, get_client returns None
PingFail(c) ==
    /\ conn[c].pc = "ping"
    /\ CommandFails(conn[c].h)
    /\ redis_client' = None
    /\ Deliver(conn[c].caller, None)
    /\ conn' = [conn EXCEPT ![c] = Returned(conn[c].caller, conn[c].h, None)]
    /\ UNCHANGED <<enabled, closed, made, storeUp, now, kv, task>>

\* get_rate_limiter: the global is built on the first call only
GetRateLimiter(c) ==
    /\ ~rate_limiter.set
    /\ GetClient(c, "get_rate_limiter")

\* the other callers of redis_manager.get_client (lifespan, health_check,
\* test_redis) use the client for a ping of their own and keep nothing
GetRedis(c) == GetClient(c, "health_check")

\* close up to its await: a cached client is closed, no client is a no-op
CloseBegin(c) ==
    /\ conn[c].pc = "idle"
    /\ IF redis_client # None
       THEN /\ closed' = closed \cup {redis_client}
            /\ conn' = [conn EXCEPT ![c] =
                          [pc |-> "closing", caller |-> "close",
                           h |-> redis_client, ret |-> None]]
       ELSE /\ conn' = [conn EXCEPT ![c] = Returned("close", None, None)]
            /\ UNCHANGED closed
    /\ UNCHANGED <<enabled, redis_client, made, rate_limiter, storeUp, now, kv, task>>

\* close after its await: self._redis_client = None
CloseEnd(c) ==
    /\ conn[c].pc = "closing"
    /\ redis_client' = AfterClose
    /\ conn' = [conn EXCEPT ![c] = Returned("close", conn[c].h, None)]
    /\ UNCHANGED <<enabled, closed, made, rate_limiter, storeUp, now, kv, task>>

(***************************************************************************)
(* RateLimiter.check_rate_limit.                                           *)
(***************************************************************************)
Finish(t, decision, level) ==
    [task[t] EXCEPT !.pc = "done", !.result = decision,
                    !.log = IF level = "" THEN @ ELSE Append(@, level)]

\* the counters a new check may still raise (bound of the model)
MaxDayCount == CharsPerDay + 3
MayStart(ip, units) ==
    /\ IncrByValue(kv, MinuteKey(ip), 1, now) <= RequestsPerMinute + MaxOver
    /\ IncrByValue(kv, DayKey(ip, Today(now)), units, now) <= MaxDayCount

\* lines 42-65: the guards before the try block, up to the await of INCR
StartCheck(t, host, units) ==
    /\ task[t].pc \in {"idle", "done"}
    /\ rate_limiter.set
    /\ MayStart(ClientIp(host), units)
    /\ LET self == rate_limiter
           ip == ClientIp(host)
           new == [IdleTask EXCEPT !.ip = ip, !.text_length = units,
                                   !.redis = self.redis]
           noip == IF host = "" THEN <<"WARNING">> ELSE <<>>
       IN task' = [task EXCEPT ![t] =
            IF Disabled
            THEN [new EXCEPT !.pc = "done", !.result = ReturnTrue]
            ELSE IF NoRedis(self)
            THEN [new EXCEPT !.pc = "done", !.result = ReturnTrue,
                             !.log = <<"WARNING">>]
            ELSE IF is_whitelisted(ip)
            THEN [new EXCEPT !.pc = "done", !.result = ReturnTrue,
                             !.log = noip \o <<"DEBUG">>]
            ELSE [new EXCEPT !.pc = "incr", !.log = noip]]
    /\ UNCHANGED <<enabled, redis_client, closed, made, rate_limiter, storeUp,
                   now, kv, conn>>

\* lines 71-85: the minute threshold, then the day key of the local date
AfterMinute(t, minute_count, ops) ==
    IF MinuteOver(minute_count)
    THEN [Finish(t, MinuteExceeded, "WARNING") EXCEPT
             !.minute_count = minute_count, !.ops = ops]
    ELSE [task[t] EXCEPT !.pc = "incrby", !.minute_count = minute_count,
                         !.today = Today(now), !.ops = ops]

\* lines 94-108: the day threshold
AfterDay(t, day_count, ops) ==
    IF DayOver(day_count)
    THEN [Finish(t, DayExceeded, "WARNING") EXCEPT
             !.day_count = day_count, !.ops = ops]
    ELSE [Finish(t, ReturnTrue, "DEBUG") EXCEPT
             !.day_count = day_count, !.ops = ops]

\* line 65: minute_count = await self.redis.incr(minute_key)
IncrOk(t) ==
    /\ task[t].pc = "incr"
    /\ CommandOk(task[t].redis)
    /\ LET k == MinuteKey(task[t].ip)
           v == IncrByValue(kv, k, 1, now)
           ops == Append(task[t].ops, <<"INCR", k>>)
       IN /\ kv' = IncrByStore(kv, k, 1, now)
          /\ task' = [task EXCEPT ![t] =
                IF FirstHit(v)
                THEN [@ EXCEPT !.pc = "expire_minute", !.minute_count = v,
                               !.ops = ops]
                ELSE AfterMinute(t, v, ops)]
    /\ UNCHANGED <<enabled, redis_client, closed, made, rate_limiter, storeUp,
                   now, conn>>

\* line 69: await self.redis.expire(minute_key, 60)
ExpireMinuteOk(t) ==
    /\ task[t].pc = "expire_minute"
    /\ CommandOk(task[t].redis)
    /\ LET k == MinuteKey(task[t].ip)
           ops == Append(task[t].ops, <<"EXPIRE", k>>)
       IN /\ kv' = ExpireStore(kv, k, MinuteTTL, now)
          /\ task' = [task EXCEPT ![t] = AfterMinute(t, task[t].minute_count, ops)]
    /\ UNCHANGED <<enabled, redis_client, closed, made, rate_limiter, storeUp,
                   now, conn>>

\* line 88: day_count = await self.redis.incrby(day_key, text_length)
IncrByOk(t) ==
    /\ task[t].pc = "incrby"
    /\ CommandOk(task[t].redis)
    /\ LET k == DayKey(task[t].ip, task[t].today)
           v == IncrByValue(kv, k, task[t].text_length, now)
           ops == Append(task[t].ops, <<"INCRBY", k>>)
       IN /\ kv' = IncrByStore(kv, k, task[t].text_length, now)
          /\ task' = [task EXCEPT ![t] =
                IF FirstAdd(v, task[t].text_length)
                THEN [@ EXCEPT !.pc = "expire_day", !.day_count = v, !.ops = ops]
                ELSE AfterDay(t, v, ops)]
    /\ UNCHANGED <<enabled, redis_client, closed, made, rate_limiter, storeUp,
                   now, conn>>

\* line 92: await self.redis.expire(day_key, 25 * 3600)
ExpireDayOk(t) ==
    /\ task[t].pc = "expire_day"
    /\ CommandOk(task[t].redis)
    /\ LET k == DayKey(task[t].ip, task[t].today)
           ops == Append(task[t].ops, <<"EXPIRE", k>>)
       IN /\ kv' = ExpireStore(kv, k, DayTTL, now)
          /\ task' = [task EXCEPT ![t] = AfterDay(t, task[t].day_count, ops)]
    /\ UNCHANGED <<enabled, redis_client, closed, made, rate_limiter, storeUp,
                   now, conn>>

\* lines 112-115: the awaited command raises; the error is logged and the
\* request passes
StoreError(t) ==
    /\ task[t].pc \in {"incr", "expire_minute", "incrby", "expire_day"}
    /\ CommandFails(task[t].redis)
    /\ task' = [task EXCEPT ![t] =
          [Finish(t, FailOpen, "ERROR") EXCEPT
              !.ops = Append(@, <<"ERROR", <<task[t].pc>>>>)]]
    /\ UNCHANGED <<enabled, redis_client, closed, made, rate_limiter, storeUp,
                   now, kv, conn>>

(***************************************************************************)
(* The environment: the clock and the Redis server.                        *)
(***************************************************************************)
\* no coroutine is suspended
Quiet ==
    /\ \A t \in Tasks : task[t].pc \in {"idle", "done"}
    /\ \A c \in Conns : conn[c].pc = "idle"

Advance(d) ==
    /\ now' = now + d
    /\ kv' = Sweep(kv, now + d)
    /\ UNCHANGED <<enabled, redis_client, closed, made, rate_limiter, storeUp,
                   conn, task>>

\* half a minute passes, also while a coroutine is suspended
TickShort ==
    /\ (now % LongTick) + ShortTick <= MaxShortTicks * ShortTick
    /\ Advance(ShortTick)

\* half a day passes between two requests: every await of a request is
\* bounded by the socket timeouts of the client
TickLong ==
    /\ Quiet
    /\ now \div LongTick < MaxLongTicks
    /\ Advance(LongTick)

StoreFlip ==
    /\ storeUp' = ~storeUp
    /\ UNCHANGED <<enabled, redis_client, closed, made, rate_limiter, now, kv,
                   conn, task>>

(***************************************************************************)
(* Specifications.                                                         *)
(***************************************************************************)
CheckStep(t) ==
    \/ IncrOk(t)
    \/ ExpireMinuteOk(t)
    \/ IncrByOk(t)
    \/ ExpireDayOk(t)
    \/ StoreError(t)

ConnStep(c) ==
    \/ PingOk(c)
    \/ PingFail(c)
    \/ CloseEnd(c)

\* the hosts of the requests of the sequential specifications
SeqHosts == {"a", "w"}

\* requests served one after the other; the server may stop answering and
\* the clock runs within one day
Next ==
    \/ Quiet /\ GetRateLimiter(1)
    \/ Quiet /\ GetRedis(1)
    \/ Quiet /\ CloseBegin(1)
    \/ \E h \in SeqHosts, u \in Units : Quiet /\ StartCheck(1, h, u)
    \/ \E t \in Tasks : CheckStep(t)
    \/ \E c \in Conns : ConnStep(c)
    \/ TickShort
    \/ StoreFlip

Spec == Init /\ [][Next]_vars

\* requests served one after the other by a server that answers every
\* command, over several days
NextQuota ==
    \/ Quiet /\ GetRateLimiter(1)
    \/ \E h \in SeqHosts, u \in Units : Quiet /\ StartCheck(1, h, u)
    \/ IncrOk(1)
    \/ ExpireMinuteOk(1)
    \/ IncrByOk(1)
    \/ ExpireDayOk(1)
    \/ PingOk(1)
    \/ TickShort
    \/ TickLong

InitQuota == Init /\ storeUp

SpecQuota == InitQuota /\ [][NextQuota]_vars

\* the connection manager alone: get_client, get_rate_limiter and close
\* called one after the other, the server going up and down
NextLife ==
    \/ Quiet /\ GetRateLimiter(1)
    \/ Quiet /\ GetRedis(1)
    \/ Quiet /\ CloseBegin(1)
    \/ PingOk(1)
    \/ PingFail(1)
    \/ CloseEnd(1)
    \/ StoreFlip

SpecLife == Init /\ [][NextLife]_vars

\* get_client, get_rate_limiter and close called concurrently
NextConn ==
    \/ \E c \in Conns : GetRateLimiter(c)
    \/ \E c \in Conns : GetRedis(c)
    \/ \E c \in Conns : CloseBegin(c)
    \/ \E c \in Conns : PingOk(c)
    \/ \E c \in Conns : PingFail(c)
    \/ \E c \in Conns : CloseEnd(c)
    \/ StoreFlip

SpecConn == Init /\ [][NextConn]_vars

\* concurrent requests of one identity, the server answering every command
NextConc ==
    \/ Quiet /\ GetRateLimiter(1)
    \/ PingOk(1)
    \/ \E t \in Tasks, u \in Units : StartCheck(t, "a", u)
    \/ \E t \in Tasks : IncrOk(t)
    \/ \E t \in Tasks : ExpireMinuteOk(t)
    \/ \E t \in Tasks : IncrByOk(t)
    \/ \E t \in Tasks : ExpireDayOk(t)

SpecConc == InitQuota /\ [][NextConc]_vars

\* requests of two identities served one after the other, the server
\* answering every command
PairHosts == {"a", ""}

NextPair ==
    \/ Quiet /\ GetRateLimiter(1)
    \/ PingOk(1)
    \/ \E h \in PairHosts, u \in Units : Quiet /\ StartCheck(1, h, u)
    \/ IncrOk(1)
    \/ ExpireMinuteOk(1)
    \/ IncrByOk(1)
    \/ ExpireDayOk(1)
    \/ TickShort

SpecPair == InitQuota /\ [][NextPair]_vars

(***************************************************************************)
(* Properties.                                                             *)
(***************************************************************************)
\* the program counters of a check suspended at a Redis command
InStore == {"incr", "expire_minute", "incrby", "expire_day"}

\* the keys of one identity
KeysOf(ip) == {MinuteKey(ip)} \cup {DayKey(ip, d) : d \in Dates}

\* the value of a key at time t, 0 when it does not exist
ValueOf(store, k, t) == IF Live(store, k, t) THEN store[k].val ELSE 0

\* C1 (as stated): for a fresh identity and a server that answers, the call
\* whose INCR returned k (the k-th call of the minute window) is admitted
\* when k <= requestsPerMinute, and the call with k = requestsPerMinute + 1
\* is denied by the minute check.
C1_Original ==
    \A t \in Tasks :
        (task[t].pc = "done" /\ task[t].minute_count >= 1) =>
            /\ task[t].minute_count <= RequestsPerMinute =>
                   task[t].result = ReturnTrue
            /\ task[t].minute_count = RequestsPerMinute + 1 =>
                   task[t].result = MinuteExceeded

\* C1 (amended): the first requestsPerMinute calls of a window pass the
\* minute check and are admitted unless the day total, their units added,
\* exceeds unitsPerDay (then they are denied by the day check); every later
\* call of the window is denied by the minute check.
C1_MinuteQuota ==
    \A t \in Tasks :
        (task[t].pc = "done" /\ task[t].minute_count >= 1) =>
            /\ task[t].minute_count <= RequestsPerMinute =>
                   task[t].result = IF task[t].day_count > CharsPerDay
                                    THEN DayExceeded ELSE ReturnTrue
            /\ task[t].minute_count > RequestsPerMinute =>
                   task[t].result = MinuteExceeded

\* the call after requestsPerMinute calls of one window is denied by the
\* minute check while the day total is within unitsPerDay
C1_Witness ==
    \E t \in Tasks :
        /\ task[t].pc = "done"
        /\ task[t].minute_count = RequestsPerMinute + 1
        /\ task[t].result = MinuteExceeded
        /\ ValueOf(kv, MinuteKey(task[t].ip), now) = RequestsPerMinute + 1
        /\ ValueOf(kv, DayKey(task[t].ip, Today(now)), now) \in 1 .. CharsPerDay

\* C2 (as stated): a call that went to the store is admitted while the day
\* total of its identity is at most unitsPerDay, and every call that ends
\* when the total is over unitsPerDay is denied by the day check.
C2_Original ==
    [][\A t \in Tasks :
          (task[t].pc \in InStore /\ task'[t].pc = "done") =>
              LET day == IF task'[t].today = "" THEN Today(now)
                         ELSE task'[t].today
                  total == ValueOf(kv', DayKey(task'[t].ip, day), now)
              IN task'[t].result = IF total > CharsPerDay
                                   THEN DayExceeded ELSE ReturnTrue]_vars

\* C2 (amended): a call that passed the minute check is admitted when the
\* day total, its units added, is at most unitsPerDay and denied by the day
\* check when it is more; once the total is over unitsPerDay, every later
\* call of that day that passes the minute check is denied by the day
\* check, whatever its units.
C2_DayQuota ==
    [][\A t \in Tasks :
          (task[t].pc \in {"incrby", "expire_day"} /\ task'[t].pc = "done") =>
              LET k == DayKey(task[t].ip, task[t].today)
                  total == ValueOf(kv', k, now)
              IN /\ task'[t].result = IF total > CharsPerDay
                                      THEN DayExceeded ELSE ReturnTrue
                 /\ (task[t].pc = "incrby" /\ ValueOf(kv, k, now) > CharsPerDay)
                        => task'[t].result = DayExceeded]_vars

\* a call of zero units is denied by the day check after the total went
\* over unitsPerDay
C2_Witness ==
    \E t \in Tasks :
        /\ task[t].pc = "done"
        /\ task[t].text_length = 0
        /\ task[t].day_count > CharsPerDay
        /\ task[t].result = DayExceeded

\* C3: a check of a whitelisted identity returns True and sends no command,
\* and no key of a whitelisted identity is ever created.
C3_Whitelist ==
    /\ \A t \in Tasks :
          (task[t].pc # "idle" /\ task[t].ip \in whitelist) =>
              /\ task[t].pc = "done"
              /\ task[t].result = ReturnTrue
              /\ task[t].ops = <<>>
    /\ \A ip \in whitelist : \A k \in KeysOf(ip) : kv[k] = Absent

\* a whitelisted identity is checked by an enabled limiter that holds a
\* client of a server that answers
C3_Witness ==
    \E t \in Tasks :
        /\ task[t].pc = "done"
        /\ task[t].ip \in whitelist
        /\ enabled /\ storeUp
        /\ task[t].redis # None
        /\ task[t].text_length > CharsPerDay

\* C4: with the policy disabled every check returns True and sends no
\* command, whatever the state of the connection; no key is ever created.
C4_Disabled ==
    ~enabled =>
        /\ \A t \in Tasks :
              task[t].pc # "idle" =>
                  /\ task[t].pc = "done"
                  /\ task[t].result = ReturnTrue
                  /\ task[t].ops = <<>>
        /\ \A k \in Keys : kv[k] = Absent

\* a disabled limiter that holds a client of a server that answers checks a
\* non-whitelisted identity
C4_Witness ==
    /\ ~enabled /\ storeUp
    /\ \E t \in Tasks :
          /\ task[t].pc = "done"
          /\ task[t].ip \notin whitelist
          /\ task[t].redis # None /\ task[t].redis \notin closed
          /\ task[t].text_length > CharsPerDay
\* C5: in a quiet state a minute key has at most 60 seconds left, so it is
\* gone 60 seconds after its expiry was set; the INCR of the first call
\* after that creates the key again at 1, that call sets a new expiry of 60
\* seconds, and the calls whose INCR returns at most requestsPerMinute are
\* admitted when the day total permits.
C5_FreshWindow ==
    [][/\ Quiet =>
            \A ip \in Ips :
                kv[MinuteKey(ip)].ex =>
                    kv[MinuteKey(ip)].exp \in (now + 1) .. (now + MinuteTTL)
       /\ \A t \in Tasks :
            LET k == MinuteKey(task[t].ip)
            IN /\ (task[t].pc = "incr" /\ task'[t].pc # "incr"
                      /\ ~Live(kv, k, now)) =>
                      /\ task'[t].pc = "expire_minute"
                      /\ task'[t].minute_count = 1
                      /\ kv'[k] = [ex |-> TRUE, val |-> 1, exp |-> NoTTL]
               /\ (task[t].pc = "expire_minute"
                      /\ task'[t].pc # "expire_minute") =>
                      kv'[k] = [ex |-> TRUE, val |-> 1, exp |-> now + MinuteTTL]
               /\ (task[t].pc \in InStore /\ task'[t].pc = "done"
                      /\ task'[t].minute_count \in 1 .. RequestsPerMinute
                      /\ ValueOf(kv', DayKey(task'[t].ip, task'[t].today), now)
                             <= CharsPerDay) =>
                      task'[t].result = ReturnTrue]_vars

\* the last call of a full window is admitted, in a window that began 60
\* seconds or more after an earlier call of the same day set the expiry of
\* the day key (so that an earlier window has expired)
C5_Witness ==
    \E t \in Tasks :
        LET mk == MinuteKey(task[t].ip)
            dk == DayKey(task[t].ip, task[t].today)
        IN /\ task[t].pc = "done"
           /\ task[t].result = ReturnTrue
           /\ task[t].minute_count = RequestsPerMinute
           /\ Live(kv, mk, now) /\ kv[mk].val = RequestsPerMinute
           /\ kv[mk].exp # NoTTL
           /\ Live(kv, dk, now) /\ kv[dk].exp # NoTTL
           /\ kv[mk].exp - MinuteTTL >= (kv[dk].exp - DayTTL) + MinuteTTL

\* C6 (as stated): a limiter built without a client returns True for every
\* check and logs exactly one warning in each.
C6_Original ==
    \A t \in Tasks :
        (task[t].pc = "done" /\ task[t].redis = None) =>
            /\ task[t].result = ReturnTrue
            /\ task[t].log = <<"WARNING">>

\* C6 (amended): a limiter built without a client returns True for every
\* check and sends no command; it logs exactly one warning in each check
\* when the policy is enabled and nothing when it is disabled.
C6_FailOpen ==
    \A t \in Tasks :
        (task[t].pc # "idle" /\ task[t].redis = None) =>
            /\ task[t].pc = "done"
            /\ task[t].result = ReturnTrue
            /\ task[t].ops = <<>>
            /\ task[t].log = IF enabled THEN <<"WARNING">> ELSE <<>>

\* an enabled limiter built without a client checks a non-whitelisted
\* identity
C6_Witness ==
    /\ enabled
    /\ \E t \in Tasks :
          /\ task[t].pc = "done"
          /\ task[t].redis = None
          /\ task[t].ip \notin whitelist
          /\ task[t].log = <<"WARNING">>

\* a command of the check of task t raised
HasError(t) ==
    \E i \in 1 .. Len(task[t].ops) : task[t].ops[i][1] = "ERROR"

\* C7: a check ends with True or with one of the two 429 decisions; a check
\* one of whose commands raised returns True; a 429 is raised only for a
\* counter value, returned by the server, that is over its threshold.
C7_ErrorAdmits ==
    \A t \in Tasks :
        task[t].pc = "done" =>
            /\ task[t].result \in {ReturnTrue, MinuteExceeded, DayExceeded}
            /\ HasError(t) => task[t].result = ReturnTrue
            /\ task[t].result = MinuteExceeded =>
                   task[t].minute_count > RequestsPerMinute
            /\ task[t].result = DayExceeded =>
                   task[t].day_count > CharsPerDay

\* after an earlier check was counted, a check is counted by INCR and then
\* one of its commands raises
C7_Witness ==
    \E t \in Tasks :
        /\ task[t].pc = "done"
        /\ HasError(t)
        /\ Len(task[t].ops) >= 2
        /\ task[t].minute_count >= 2
        /\ task[t].result = ReturnTrue

\* C8 (as stated): a check of a non-whitelisted identity that starts while
\* the policy is enabled and RedisManager holds a client of a server that
\* answers goes to the store (it does not return at once).
C8_Recovers ==
    [][\A t \in Tasks :
          (/\ task[t].pc \in {"idle", "done"}
           /\ task'[t] # task[t]
           /\ enabled /\ storeUp
           /\ redis_client # None /\ redis_client \notin closed
           /\ task'[t].ip \notin whitelist)
          => task'[t].pc = "incr"]_vars

\* C9: no step of a check up to its minute threshold changes a day key, and
\* a check denied by the minute check has sent commands for its minute key
\* only.
C9_MinuteDenySkipsDay ==
    [][\A t \in Tasks :
          (task[t].pc \in {"incr", "expire_minute"} /\ task'[t] # task[t]) =>
              /\ \A ip \in Ips, d \in Dates :
                    kv'[DayKey(ip, d)] = kv[DayKey(ip, d)]
              /\ task'[t].result = MinuteExceeded =>
                    \A i \in 1 .. Len(task'[t].ops) :
                        /\ task'[t].ops[i][1] \in {"INCR", "EXPIRE"}
                        /\ task'[t].ops[i][2][2] = "req"]_vars

\* a check with units is denied by the minute check while the day counter
\* of its identity holds units of earlier checks
C9_Witness ==
    \E t \in Tasks :
        /\ task[t].pc = "done"
        /\ task[t].result = MinuteExceeded
        /\ task[t].text_length > 0
        /\ ValueOf(kv, DayKey(task[t].ip, Today(now)), now) > 0

\* the machine-readable part of a 429 decision (the message is for people)
ReasonCode(decision) ==
    <<decision.status_code, decision.error, decision.type>>

\* C10 (as stated): the reason code of a denial by the day check differs
\* from the reason code of the denials by the minute check, and the other
\* way round.
C10_ReasonCodes ==
    \A t \in Tasks :
        task[t].pc = "done" =>
            /\ (task[t].result.status_code = 429
                   /\ task[t].day_count > CharsPerDay) =>
                   ReasonCode(task[t].result) # ReasonCode(MinuteExceeded)
            /\ (task[t].result.status_code = 429
                   /\ task[t].minute_count > RequestsPerMinute) =>
                   ReasonCode(task[t].result) # ReasonCode(DayExceeded)

\* the callers of get_client
Acquirers == {"get_rate_limiter", "health_check"}

\* C11: when get_client has returned a client and close has not been called
\* since, the next get_client returns that same client at once: it builds no
\* client and sends no PING.
C11_Idempotent ==
    [][\A c \in Conns :
          (/\ conn[c].pc = "idle"
           /\ conn[c].caller \in Acquirers
           /\ conn[c].ret # None
           /\ conn'[c] # conn[c]
           /\ conn'[c].caller \in Acquirers) =>
              /\ conn'[c].pc = "idle"
              /\ conn'[c].ret = conn[c].ret
              /\ made' = made
              /\ redis_client' = redis_client]_vars

\* the health check was served from the cache the client get_rate_limiter
\* had built
C11_Witness ==
    /\ conn[1].pc = "idle"
    /\ conn[1].caller = "health_check"
    /\ conn[1].h = None
    /\ conn[1].ret # None
    /\ rate_limiter.redis = conn[1].ret
    /\ made = 1

\* the clients something still refers to and nobody has closed
LiveHandles ==
    ({redis_client, rate_limiter.redis}
        \cup {conn[c].h : c \in {d \in Conns : conn[d].pc = "ping"}}
        \cup {task[t].redis : t \in {u \in Tasks : task[u].pc \in InStore}})
    \ ({None} \cup closed)

\* C12 (as stated): at most one client is alive, and the client the rate
\* limiter holds is the client the manager has cached.
C12_Singleton ==
    /\ Cardinality(LiveHandles) <= 1
    /\ rate_limiter.redis # None => rate_limiter.redis = redis_client

\* "redis_available" of rate_limit_info
redis_available == rate_limiter.redis # None

\* C13 (as stated): once the rate limiter exists and no connection call is
\* suspended, redis_available tells whether the manager has a client cached.
C13_StatusLive ==
    (rate_limiter.set /\ \A c \in Conns : conn[c].pc = "idle") =>
        (redis_available <=> redis_client # None)

\* C14: close closes the cached client and forgets it, so that the next
\* get_client builds a new client and pings it; with no client cached, close
\* changes nothing.
C14_Release ==
    [][\A c \in Conns :
          /\ (conn[c].pc = "idle" /\ conn'[c].pc = "closing") =>
                 /\ redis_client # None
                 /\ conn'[c].h = redis_client
                 /\ closed' = closed \cup {redis_client}
          /\ (conn[c].pc = "closing" /\ conn'[c].pc = "idle") =>
                 /\ redis_client' = None
                 /\ UNCHANGED <<closed, made, rate_limiter, kv>>
          /\ (/\ conn[c].pc = "idle"
              /\ conn[c].caller = "close"
              /\ conn'[c].caller \in Acquirers) =>
                 /\ conn'[c].pc = "ping"
                 /\ conn'[c].h \notin closed
                 /\ made' = made + 1
                 /\ redis_client' = conn'[c].h
          /\ (/\ conn[c].pc = "idle"
              /\ conn'[c].pc = "idle"
              /\ conn'[c] # conn[c]
              /\ conn'[c].caller = "close") =>
                 /\ redis_client = None
                 /\ UNCHANGED <<redis_client, closed, made, rate_limiter,
                                kv, task, enabled, storeUp, now>>]_vars

\* a new client is being pinged after the one before it was closed
C14_Witness ==
    /\ conn[1].pc = "ping"
    /\ closed # {}
    /\ conn[1].h \notin closed
    /\ redis_client = conn[1].h

\* the clients whose PING has not been answered yet
Probing == {conn[c].h : c \in {d \in Conns : conn[d].pc = "ping"}}

\* the clients whose PING failed
FailedProbe ==
    {conn[c].h : c \in {d \in Conns : /\ conn[d].pc = "idle"
                                      /\ conn[d].caller \in Acquirers
                                      /\ conn[d].ret = None}} \ {None}

\* the clients get_client has returned to a caller
Handed ==
    ({conn[c].ret : c \in {d \in Conns : /\ conn[d].pc = "idle"
                                         /\ conn[d].caller \in Acquirers}}
        \cup {rate_limiter.redis}) \ {None}

\* C15 (as stated): under every interleaving of get_client calls, a client a
\* caller was handed is a client whose PING has succeeded: it is neither still
\* being pinged nor one whose PING failed.
C15_ProbedOnly == Handed \cap (Probing \cup FailedProbe) = {}

\* the requests that went past the minute check
PastMinute(t) ==
    \/ task[t].pc \in {"incrby", "expire_day"}
    \/ /\ task[t].pc = "done"
       /\ task[t].minute_count >= 1
       /\ task[t].result # MinuteExceeded

\* C16: concurrent requests of one identity, within one life of the minute
\* key: every INCR returns the stored value plus one and stores it, no two
\* requests hold the same value, and a request is past the minute check only
\* with a value of at most requestsPerMinute, so that at most
\* requestsPerMinute requests pass.
C16_NoLostUpdate ==
    /\ [](\A t1, t2 \in Tasks :
            (t1 # t2 /\ task[t1].minute_count >= 1) =>
                task[t1].minute_count # task[t2].minute_count)
    /\ [](\A t \in Tasks :
            PastMinute(t) => task[t].minute_count <= RequestsPerMinute)
    /\ [][\A t \in Tasks :
            (task[t].pc = "incr" /\ task'[t].pc # "incr") =>
                /\ task'[t].minute_count =
                       ValueOf(kv, MinuteKey(task[t].ip), now) + 1
                /\ ValueOf(kv', MinuteKey(task[t].ip), now') =
                       task'[t].minute_count
                /\ \A u \in Tasks \ {t} :
                       task[u].minute_count < task'[t].minute_count]_vars

\* one request is denied by the minute check while another one, admitted by
\* it, is still suspended
C16_Witness ==
    \E t1, t2 \in Tasks :
        /\ task[t1].pc = "done"
        /\ task[t1].result = MinuteExceeded
        /\ task[t2].pc = "incrby"
        /\ task[t2].minute_count = RequestsPerMinute

\* C17: concurrent requests of one identity: the request whose INCR returned
\* 1, and no other, sends EXPIRE for the minute key, and EXPIRE is sent only
\* for a key that has no time to live yet.
C17_OneExpire ==
    /\ [](Cardinality({t \in Tasks : task[t].minute_count = 1}) <= 1)
    /\ [][\A t \in Tasks :
            /\ (task[t].pc = "incr" /\ task'[t].pc # "incr") =>
                   (task'[t].pc = "expire_minute"
                       <=> task'[t].minute_count = 1)
            /\ (task[t].pc = "expire_minute"
                   /\ task'[t].pc # "expire_minute") =>
                   /\ task[t].minute_count = 1
                   /\ kv[MinuteKey(task[t].ip)].ex
                   /\ kv[MinuteKey(task[t].ip)].exp = NoTTL
                   /\ kv'[MinuteKey(task[t].ip)].exp = now + MinuteTTL]_vars

\* the first request has sent EXPIRE after a second request had already
\* incremented the counter
C17_Witness ==
    \E t1, t2 \in Tasks :
        /\ task[t1].minute_count = 1
        /\ task[t1].pc = "incrby"
        /\ task[t2].minute_count = 2
        /\ task[t2].pc = "incrby"
        /\ kv[MinuteKey("a")].exp = now + MinuteTTL

\* C18 (as stated): EXPIRE of a day key is sent by the INCRBY that created
\* the key and by no other, whatever the text lengths, 0 included.
C18_ExpiryOnce ==
    [][\A t \in Tasks :
          /\ (task[t].pc = "incrby" /\ task'[t].pc # "incrby") =>
                 (task'[t].pc = "expire_day"
                     <=> ~Live(kv, DayKey(task[t].ip, task[t].today), now))
          /\ (task[t].pc = "expire_day" /\ task'[t].pc # "expire_day") =>
                 kv[DayKey(task[t].ip, task[t].today)].exp = NoTTL]_vars

\* C19 (as stated): when no request is suspended, a minute key that exists
\* has a time to live of at most 60 seconds.
C19_WindowBounded ==
    (\A t \in Tasks : task[t].pc \notin InStore) =>
        \A ip \in Ips :
            kv[MinuteKey(ip)].ex =>
                /\ kv[MinuteKey(ip)].exp # NoTTL
                /\ kv[MinuteKey(ip)].exp <= now + MinuteTTL

\* C20: a step of a request leaves the keys of every other identity as they
\* are, and the counts the request decides on are read from its own keys.
C20_Frame ==
    [][\A t \in Tasks :
          task'[t] # task[t] =>
              /\ \A k \in Keys : k[3] # task'[t].ip => kv'[k] = kv[k]
              /\ (task[t].pc = "incr" /\ task'[t].pc # "incr") =>
                     task'[t].minute_count =
                        ValueOf(kv, <<"rate_limit", "req", task[t].ip,
                                      "minute">>, now) + 1
              /\ (task[t].pc = "incrby" /\ task'[t].pc # "incrby") =>
                     task'[t].day_count =
                        ValueOf(kv, <<"rate_limit", "chars", task[t].ip,
                                      task[t].today>>, now)
                        + task[t].text_length]_vars

\* a request of "a" is admitted while the minute counter of the requests
\* without a client address is over the threshold
C20_Witness ==
    /\ task[1].pc = "done"
    /\ task[1].ip = "a"
    /\ task[1].result = ReturnTrue
    /\ task[1].minute_count = 1
    /\ task[1].day_count = task[1].text_length
    /\ kv[MinuteKey("unknown")].val > RequestsPerMinute
    /\ ValueOf(kv, DayKey("unknown", Today(now)), now) > CharsPerDay

====
